---- MODULE Spec2Model ----
(***************************************************************************)
(* Cloth simulation (cloth_simulation.c): a grid of particles joined by    *)
(* distance constraints, integrated per frame by the active material's     *)
(* force law, displaced by the pointer, and relaxed 5 times.               *)
(*                                                                         *)
(* Numbers.  A C float is modelled as a fixed-point number with three      *)
(* decimals: the integer v stands for v / FX.  Every product and quotient  *)
(* rounds to the nearest representable value, as a float operation rounds  *)
(* its exact result.  The non-finite results of IEEE-754 (0/0, x/0,        *)
(* inf * 0) are the values NaN, PInf and NInf.                             *)
(*                                                                         *)
(* Left out: SDL_QUIT and the running flag, rendering, calc_energy_* and   *)
(* the neighbors fields, none of which writes a particle or a constraint.  *)
(***************************************************************************)
EXTENDS Integers, Sequences, FiniteSets, TLC

VARIABLES
    grid,              \* GRID_WIDTH, GRID_HEIGHT, PARTICLE_SPACING of the build
    particles,         \* Particle particles[]: index -> record
    constraints,       \* Constraint constraints[]: sequence of records
    current_material,  \* Material current_material
    mouse,             \* SDL_Point mouse
    mouse_down,        \* bool mouse_down
    dt,                \* main's dt of the running frame, in ticks (ms)
    pc,                \* position in main's loop, or in the isolated relaxation
    j,                 \* main's relaxation counter j
    frames,            \* iterations of main's loop completed
    \* ---- observation only: written, never read by the program's actions ----
    frame_start,       \* particles when the running frame's poll loop began
    before,            \* particles before the pass that ran last
    snapped,           \* particles the last interaction pass snapped
    snap_pt,           \* the pointer position of that interaction pass
    keys,              \* progress of the selections 1,3,2,1 since the last step
    last_key,          \* the key of the most recent material selection
    used,              \* the policies the running step has dispatched to or read
    div_by_zero        \* a division with a zero divisor has been executed

vars == << grid, particles, constraints, current_material, mouse, mouse_down,
           dt, pc, j, frames, frame_start, before, snapped, snap_pt, keys,
           last_key, used, div_by_zero >>

(***************************************************************************)
(* Bounds of the model.                                                    *)
(***************************************************************************)
MaxFrames == 2
MaxPasses == 5

(***************************************************************************)
(* Fixed-point arithmetic standing for float arithmetic.                   *)
(***************************************************************************)
FX == 10 * 10 * 10

NaN == -2147483647
PInf == 2147483646
NInf == -2147483646

IsFinite(v) == v # NaN /\ v # PInf /\ v # NInf

Abs(v) == IF v < 0 THEN -v ELSE v

Sign(v) == IF v < 0 THEN -1 ELSE 1

Max(a, b) == IF a >= b THEN a ELSE b

Min(a, b) == IF a <= b THEN a ELSE b

\* n / d rounded to the nearest integer, halves away from zero (n >= 0, d > 0).
RDivPos(n, d) == (n + d \div 2) \div d

RDiv(n, d) == Sign(n) * Sign(d) * RDivPos(Abs(n), Abs(d))

\* a * b of two floats; the larger factor is split so the exact product is
\* never formed in more than 31 bits.
MulFx(a, b) ==
    LET hi == Max(Abs(a), Abs(b))
        lo == Min(Abs(a), Abs(b))
    IN  Sign(a) * Sign(b) * ((hi \div FX) * lo + RDivPos((hi % FX) * lo, FX))

\* a / b of two floats, b # 0.
DivFx(a, b) ==
    LET n == Abs(a)
        d == Abs(b)
    IN  Sign(a) * Sign(b) * ((n \div d) * FX + RDivPos((n % d) * FX, d))

RECURSIVE ISqrtIn(_, _, _)
\* The largest r in lo..hi with r * r <= n.
ISqrtIn(n, lo, hi) ==
    IF lo >= hi THEN lo
    ELSE LET mid == (lo + hi + 1) \div 2
         IN  IF mid * mid <= n THEN ISqrtIn(n, mid, hi) ELSE ISqrtIn(n, lo, mid - 1)

\* sqrt(n) rounded to the nearest integer.
ISqrt(n) ==
    LET r == ISqrtIn(n, 0, 46340)
    IN  IF n - r * r > r THEN r + 1 ELSE r

RECURSIVE Hypot(_, _)
\* sqrtf(a * a + b * b); operands too large for the exact sum of squares are
\* scaled down first, which keeps precision relative as a float does.
Hypot(a, b) ==
    IF Abs(a) > 30000 \/ Abs(b) > 30000
    THEN 10 * Hypot(RDiv(a, 10), RDiv(b, 10))
    ELSE ISqrt(a * a + b * b)

(***************************************************************************)
(* Program constants.                                                      *)
(***************************************************************************)
SCREEN_WIDTH == 800
SCREEN_HEIGHT == 600
RELAX_ITERATIONS == 5

\* The builds checked: GRID_WIDTH x GRID_HEIGHT particles, PARTICLE_SPACING
\* apart.  The source's own build is 50 x 30 at spacing 15.
Configs ==
    { [w |-> 2, h |-> 2, spacing |-> 10],
      [w |-> 3, h |-> 2, spacing |-> 15],
      [w |-> 2, h |-> 3, spacing |-> 15] }

GRAVITY == 980 * FX

COTTON ==
    [ name |-> "COTTON", elasticity |-> 300, mass |-> 1000, stiffness |-> 800,
      damping |-> 990, tear_distance |-> 25000, air_friction |-> 20,
      bend_stiffness |-> 300,
      apply_force |-> "apply_force_cotton",
      solve_constraint |-> "solve_constraint_cotton" ]

SILK ==
    [ name |-> "SILK", elasticity |-> 500, mass |-> 700, stiffness |-> 600,
      damping |-> 995, tear_distance |-> 20000, air_friction |-> 30,
      bend_stiffness |-> 200,
      apply_force |-> "apply_force_silk",
      solve_constraint |-> "solve_constraint_silk" ]

DENIM ==
    [ name |-> "DENIM", elasticity |-> 100, mass |-> 1500, stiffness |-> 900,
      damping |-> 980, tear_distance |-> 35000, air_friction |-> 10,
      bend_stiffness |-> 700,
      apply_force |-> "apply_force_denim",
      solve_constraint |-> "solve_constraint_denim" ]

Materials == { COTTON, SILK, DENIM }

\* IEEE-754 arithmetic on top of the fixed-point one: a NaN operand gives NaN,
\* inf - inf and inf * 0 give NaN, x / 0 gives an infinity and 0 / 0 gives NaN.
NegF(a) == IF a = NaN THEN NaN ELSE IF a = PInf THEN NInf ELSE IF a = NInf THEN PInf ELSE -a

AddF(a, b) ==
    IF a = NaN \/ b = NaN THEN NaN
    ELSE IF ~IsFinite(a) THEN (IF ~IsFinite(b) /\ b # a THEN NaN ELSE a)
    ELSE IF ~IsFinite(b) THEN b
    ELSE a + b

SubF(a, b) == AddF(a, NegF(b))

MulF(a, b) ==
    IF a = NaN \/ b = NaN THEN NaN
    ELSE IF ~IsFinite(a) \/ ~IsFinite(b)
         THEN IF a = 0 \/ b = 0 THEN NaN
              ELSE IF (a > 0) = (b > 0) THEN PInf ELSE NInf
    ELSE MulFx(a, b)

DivF(a, b) ==
    IF a = NaN \/ b = NaN THEN NaN
    ELSE IF ~IsFinite(a)
         THEN IF ~IsFinite(b) THEN NaN
              ELSE IF (a > 0) = (b >= 0) THEN PInf ELSE NInf
    ELSE IF ~IsFinite(b) THEN 0
    ELSE IF b = 0 THEN (IF a = 0 THEN NaN ELSE IF a > 0 THEN PInf ELSE NInf)
    ELSE DivFx(a, b)

\* a > b and a < b of C: false whenever an operand is NaN.
GtF(a, b) == a # NaN /\ b # NaN /\ a > b

LtF(a, b) == a # NaN /\ b # NaN /\ a < b

\* sqrtf(a * a + b * b)
SqrtSumSq(a, b) ==
    IF a = NaN \/ b = NaN THEN NaN
    ELSE IF ~IsFinite(a) \/ ~IsFinite(b) THEN PInf
    ELSE Hypot(a, b)

\* (current_time - last_time) / 1000.0f for a difference of t ticks.
DtOf(t) == DivFx(t * FX, 1000 * FX)

(***************************************************************************)
(* Particles and their material reference.                                 *)
(***************************************************************************)
\* p->material: every particle holds the address of the global current_material.
Deref(ref, cur) ==
    IF ref = "&current_material" THEN cur
    ELSE IF ref = "&COTTON" THEN COTTON
    ELSE IF ref = "&SILK" THEN SILK
    ELSE DENIM

NumParticles(g) == g.w * g.h

Idx(g) == 0 .. (NumParticles(g) - 1)

\* start_x and start_y of init_particles: integer expressions, so the division
\* truncates before the conversion to float.
StartX(g) == (SCREEN_WIDTH - (g.w - 1) * g.spacing) \div 2

StartY(g) == (SCREEN_HEIGHT - (g.h - 1) * g.spacing) \div 4

InitParticleNoLock(g, i, cur) ==
    LET col == i % g.w
        row == i \div g.w
        px == (StartX(g) + col * g.spacing) * FX
        py == (StartY(g) + row * g.spacing) * FX
    IN  [ x |-> px, y |-> py, old_x |-> px, old_y |-> py, vx |-> 0, vy |-> 0,
          force_x |-> 0, force_y |-> 0, mass |-> cur.mass,
          material |-> "&current_material", locked |-> FALSE ]

\* Mutant: the particle stores the address of the constant COTTON.
InitParticleCottonRef(g, i, cur) ==
    [ InitParticleNoLock(g, i, cur) EXCEPT !.locked = (i \div g.w = 0),
                                           !.material = "&COTTON" ]

InitParticle(g, i, cur) ==
    [ InitParticleNoLock(g, i, cur) EXCEPT !.locked = (i \div g.w = 0) ]

InitParticles(g, cur) == [ i \in Idx(g) |-> InitParticle(g, i, cur) ]

(***************************************************************************)
(* The force laws.                                                         *)
(***************************************************************************)
\* Mutant: the position advances by half the velocity step, the textbook
\* s = a * t^2 / 2 in place of the code's v * dt.
AdvanceHalf(pos, v, d) == AddF(pos, MulF(MulF(v, d), 500))

\* p->x += p->vx * dt
Advance(pos, v, d) == AddF(pos, MulF(v, d))

ApplyForceCottonBody(p, d, cur) ==
    LET fx0 == 0
        fy0 == MulF(GRAVITY, p.mass)
        speed == SqrtSumSq(p.vx, p.vy)
        drag == GtF(speed, 0)
        air_force == MulF(MulF(speed, speed), Deref(p.material, cur).air_friction)
        fx1 == IF drag THEN SubF(fx0, MulF(DivF(p.vx, speed), air_force)) ELSE fx0
        fy1 == IF drag THEN SubF(fy0, MulF(DivF(p.vy, speed), air_force)) ELSE fy0
        ax == DivF(fx1, p.mass)
        ay == DivF(fy1, p.mass)
        nvx == AddF(DivF(SubF(p.x, p.old_x), d), MulF(ax, d))
        nvy == AddF(DivF(SubF(p.y, p.old_y), d), MulF(ay, d))
    IN  [ p EXCEPT !.force_x = fx1, !.force_y = fy1, !.vx = nvx, !.vy = nvy,
                   !.x = Advance(p.x, nvx, d), !.y = Advance(p.y, nvy, d),
                   !.old_x = p.x, !.old_y = p.y ]

\* Mutant: the early return for locked particles is missing.
ApplyForceCottonUnguarded(p, d, cur) == ApplyForceCottonBody(p, d, cur)

ApplyForceCotton(p, d, cur) ==
    IF p.locked THEN p ELSE ApplyForceCottonBody(p, d, cur)

ApplyForceSilk(p, d, cur) ==
    LET q == ApplyForceCotton(p, d, cur)
        m == Deref(q.material, cur)
    IN  [ q EXCEPT !.vx = MulF(q.vx, m.damping), !.vy = MulF(q.vy, m.damping) ]

ApplyForceDenim(p, d, cur) ==
    LET q == ApplyForceCotton(p, d, cur)
        m == Deref(q.material, cur)
    IN  [ q EXCEPT !.vx = MulF(q.vx, MulF(m.damping, 900)),
                   !.vy = MulF(q.vy, MulF(m.damping, 900)) ]

\* current_material.apply_force(&particles[i], dt)
ApplyForce(p, d, cur) ==
    IF cur.apply_force = "apply_force_cotton" THEN ApplyForceCotton(p, d, cur)
    ELSE IF cur.apply_force = "apply_force_silk" THEN ApplyForceSilk(p, d, cur)
    ELSE ApplyForceDenim(p, d, cur)

\* The divisors apply_force_cotton divides by for particle p: speed (twice,
\* under its guard), mass (twice) and dt (twice).
ForceDivisors(p, d) ==
    IF p.locked THEN {}
    ELSE (IF GtF(SqrtSumSq(p.vx, p.vy), 0) THEN { SqrtSumSq(p.vx, p.vy) } ELSE {})
         \cup { p.mass, d }

\* main's loop over all particles.
ForcePass(ps, d, cur) == [ i \in DOMAIN ps |-> ApplyForce(ps[i], d, cur) ]

(***************************************************************************)
(* Constraints and their relaxation.                                       *)
(***************************************************************************)
\* Mutant: the inner loop runs x over the whole row, so a link joins the last
\* particle of a row to the first of the next.
HorizontalConstraintsWrap(g, cur) ==
    [ k \in 1 .. (g.w - 1) * g.h |->
        [ p1 |-> k - 1, p2 |-> k,
          rest_length |-> g.spacing * FX, strength |-> cur.stiffness ] ]

HorizontalConstraints(g, cur) ==
    [ k \in 1 .. (g.w - 1) * g.h |->
        LET row == (k - 1) \div (g.w - 1)
            col == (k - 1) % (g.w - 1)
        IN  [ p1 |-> row * g.w + col, p2 |-> row * g.w + col + 1,
              rest_length |-> g.spacing * FX, strength |-> cur.stiffness ] ]

VerticalConstraints(g, cur) ==
    [ k \in 1 .. g.w * (g.h - 1) |->
        LET row == (k - 1) \div g.w
            col == (k - 1) % g.w
        IN  [ p1 |-> row * g.w + col, p2 |-> (row + 1) * g.w + col,
              rest_length |-> g.spacing * FX, strength |-> cur.stiffness ] ]

InitConstraints(g, cur) == HorizontalConstraints(g, cur) \o VerticalConstraints(g, cur)

\* 0.0001f, the floor of solve_constraint_cotton (0 at three decimals).
DIST_FLOOR == RDiv(FX, 10000)

\* 0.5f * elasticity is applied left to right: ((dx * diff) * 0.5f) * elasticity.
\* Mutant: the correction has the wrong sign.
CorrectionAway(dv, diff, m) == NegF(MulF(MulF(MulF(dv, diff), 500), m.elasticity))

Correction(dv, diff, m) == MulF(MulF(MulF(dv, diff), 500), m.elasticity)

SolveConstraintCotton(ps, a, b, rest_length, cur) ==
    LET p1 == ps[a]
        p2 == ps[b]
        dx == SubF(p2.x, p1.x)
        dy == SubF(p2.y, p1.y)
        dist == SqrtSumSq(dx, dy)
        diff == DivF(SubF(dist, rest_length), dist)
        q1 == IF ~p1.locked
              THEN [ p1 EXCEPT
                       !.x = AddF(p1.x, Correction(dx, diff, Deref(p1.material, cur))),
                       !.y = AddF(p1.y, Correction(dy, diff, Deref(p1.material, cur))) ]
              ELSE p1
        q2 == IF ~p2.locked
              THEN [ p2 EXCEPT
                       !.x = SubF(p2.x, Correction(dx, diff, Deref(p2.material, cur))),
                       !.y = SubF(p2.y, Correction(dy, diff, Deref(p2.material, cur))) ]
              ELSE p2
    IN  IF GtF(dist, DIST_FLOOR)
        THEN [ ps EXCEPT ![a] = q1, ![b] = q2 ]
        ELSE ps

\* Mutant: silk shortens the rest length as denim does.
SolveConstraintSilkShrunk(ps, a, b, rest_length, cur) ==
    SolveConstraintCotton(ps, a, b, MulF(rest_length, 900), cur)

SolveConstraintSilk(ps, a, b, rest_length, cur) ==
    SolveConstraintCotton(ps, a, b, rest_length, cur)

SolveConstraintDenim(ps, a, b, rest_length, cur) ==
    SolveConstraintCotton(ps, a, b, MulF(rest_length, 900), cur)

\* current_material.solve_constraint(c->p1, c->p2, c->rest_length)
SolveConstraint(ps, c, cur) ==
    IF cur.solve_constraint = "solve_constraint_cotton"
    THEN SolveConstraintCotton(ps, c.p1, c.p2, c.rest_length, cur)
    ELSE IF cur.solve_constraint = "solve_constraint_silk"
    THEN SolveConstraintSilk(ps, c.p1, c.p2, c.rest_length, cur)
    ELSE SolveConstraintDenim(ps, c.p1, c.p2, c.rest_length, cur)

RECURSIVE RelaxFrom(_, _, _, _)
\* The inner loop of main's relaxation: constraints i, i+1, ... in array order,
\* each reading the positions the earlier ones wrote.
RelaxFrom(ps, cs, i, cur) ==
    IF i > Len(cs) THEN ps
    ELSE RelaxFrom(SolveConstraint(ps, cs[i], cur), cs, i + 1, cur)

RelaxPass(ps, cs, cur) == RelaxFrom(ps, cs, 1, cur)

\* The distance solve_constraint_cotton divides by for constraint c, when it
\* divides at all.
ConstraintDivisors(ps, c) ==
    LET dist == SqrtSumSq(SubF(ps[c.p2].x, ps[c.p1].x), SubF(ps[c.p2].y, ps[c.p1].y))
    IN  IF GtF(dist, DIST_FLOOR) THEN { dist } ELSE {}

RECURSIVE RelaxDivisors(_, _, _, _)
RelaxDivisors(ps, cs, i, cur) ==
    IF i > Len(cs) THEN {}
    ELSE ConstraintDivisors(ps, cs[i])
         \cup RelaxDivisors(SolveConstraint(ps, cs[i], cur), cs, i + 1, cur)

(***************************************************************************)
(* Pointer interaction.                                                    *)
(***************************************************************************)
\* The condition of handle_mouse_interaction's if, without the lock test.
InReach(p, m) ==
    LtF(SqrtSumSq(SubF(p.x, m.x * FX), SubF(p.y, m.y * FX)), 20 * FX)

Grabbed(p, m) == InReach(p, m) /\ ~p.locked

\* Mutant: the lock flag is not tested.
HandleMouseInteractionNoLock(ps, m, down) ==
    IF ~down THEN ps
    ELSE [ i \in DOMAIN ps |->
            IF InReach(ps[i], m)
            THEN [ ps[i] EXCEPT !.x = m.x * FX, !.y = m.y * FX,
                                !.old_x = m.x * FX, !.old_y = m.y * FX ]
            ELSE ps[i] ]

\* Mutant: the previous position is not reset.
HandleMouseInteractionKeepOld(ps, m, down) ==
    IF ~down THEN ps
    ELSE [ i \in DOMAIN ps |->
            IF Grabbed(ps[i], m)
            THEN [ ps[i] EXCEPT !.x = m.x * FX, !.y = m.y * FX ]
            ELSE ps[i] ]

HandleMouseInteraction(ps, m, down) ==
    IF ~down THEN ps
    ELSE [ i \in DOMAIN ps |->
            IF Grabbed(ps[i], m)
            THEN [ ps[i] EXCEPT !.x = m.x * FX, !.y = m.y * FX,
                                !.old_x = m.x * FX, !.old_y = m.y * FX ]
            ELSE ps[i] ]

(***************************************************************************)
(* Material selection.                                                     *)
(***************************************************************************)
\* Mutant: key 1 selects silk.
KeyMaterialSilkOnOne(k) ==
    IF k = "SDLK_1" THEN SILK ELSE IF k = "SDLK_2" THEN SILK ELSE DENIM

KeyMaterial(k) ==
    IF k = "SDLK_1" THEN COTTON ELSE IF k = "SDLK_2" THEN SILK ELSE DENIM

MaterialKeys == { "SDLK_1", "SDLK_2", "SDLK_3" }

\* The policy a function pointer belongs to.
PolicyOf(fn) ==
    IF fn \in { "apply_force_cotton", "solve_constraint_cotton" } THEN "COTTON"
    ELSE IF fn \in { "apply_force_silk", "solve_constraint_silk" } THEN "SILK"
    ELSE "DENIM"

PolicyOfKey(k) ==
    IF k \in { "none", "SDLK_1" } THEN "COTTON"
    ELSE IF k = "SDLK_2" THEN "SILK" ELSE "DENIM"

\* The policies a pass reads coefficients of, through each particle's reference.
Referenced(ps, cur) == { Deref(ps[i].material, cur).name : i \in DOMAIN ps }

\* The selections cotton, denim, silk, cotton in this order.
RoundTrip == << "SDLK_1", "SDLK_3", "SDLK_2", "SDLK_1" >>

NextKeys(n, k) ==
    IF n < Len(RoundTrip) /\ k = RoundTrip[n + 1] THEN n + 1
    ELSE IF k = RoundTrip[1] THEN 1 ELSE 0

(***************************************************************************)
(* The program: main's loop.                                               *)
(***************************************************************************)
\* Pointer positions the events carry: the first locked particle's own
\* position, and a point below the second column of the bottom rows.
MousePoints(g) ==
    { [x |-> StartX(g), y |-> StartY(g)],
      [x |-> StartX(g) + g.spacing + 6, y |-> StartY(g) + g.spacing + 12] }

\* Tick differences current_time - last_time of two successive frames: 0 when
\* both reads fall in one millisecond (the first frame after last_time is set),
\* 17 for SDL_Delay(16) plus the frame's work, which is 1/60 s at three decimals.
DtTicks == { 0, 17 }

Init ==
    /\ grid \in Configs
    /\ current_material = COTTON
    /\ particles = InitParticles(grid, COTTON)
    /\ constraints = InitConstraints(grid, COTTON)
    /\ mouse = [x |-> 0, y |-> 0]
    /\ mouse_down = FALSE
    /\ dt = 0
    /\ pc = "poll"
    /\ j = 0
    /\ frames = 0
    /\ frame_start = InitParticles(grid, COTTON)
    /\ before = InitParticles(grid, COTTON)
    /\ snapped = {}
    /\ snap_pt = [x |-> 0, y |-> 0]
    /\ keys = 0
    /\ last_key = "none"
    /\ used = {}
    /\ div_by_zero = FALSE

Polling == pc = "poll" /\ frames < MaxFrames

\* case SDL_KEYDOWN
KeyDown(k) ==
    /\ Polling
    /\ current_material' = KeyMaterial(k)
    /\ keys' = NextKeys(keys, k)
    /\ last_key' = k
    /\ UNCHANGED << grid, particles, constraints, mouse, mouse_down, dt, pc, j,
                    frames, frame_start, before, snapped, snap_pt, used,
                    div_by_zero >>

\* case SDL_MOUSEBUTTONDOWN
MouseButtonDown(pt) ==
    /\ Polling
    /\ mouse_down' = TRUE
    /\ mouse' = pt
    /\ UNCHANGED << grid, particles, constraints, current_material, dt, pc, j,
                    frames, frame_start, before, snapped, snap_pt, keys,
                    last_key, used, div_by_zero >>

\* case SDL_MOUSEBUTTONUP
MouseButtonUp ==
    /\ Polling
    /\ mouse_down' = FALSE
    /\ UNCHANGED << grid, particles, constraints, current_material, mouse, dt,
                    pc, j, frames, frame_start, before, snapped, snap_pt, keys,
                    last_key, used, div_by_zero >>

\* case SDL_MOUSEMOTION
MouseMotion(pt) ==
    /\ Polling
    /\ mouse' = pt
    /\ UNCHANGED << grid, particles, constraints, current_material, mouse_down,
                    dt, pc, j, frames, frame_start, before, snapped, snap_pt,
                    keys, last_key, used, div_by_zero >>

\* The poll loop ends; dt is computed and the force pass runs over all particles.
ForceStep(t) ==
    /\ Polling
    /\ dt' = t
    /\ before' = particles
    /\ particles' = ForcePass(particles, DtOf(t), current_material)
    /\ used' = { PolicyOf(current_material.apply_force) }
               \cup Referenced(particles, current_material)
    /\ div_by_zero' = (div_by_zero
                       \/ \E i \in DOMAIN particles :
                            0 \in ForceDivisors(particles[i], DtOf(t)))
    /\ keys' = 0
    /\ pc' = "interact"
    /\ UNCHANGED << grid, constraints, current_material, mouse, mouse_down, j,
                    frames, frame_start, snapped, snap_pt, last_key >>

\* handle_mouse_interaction()
InteractStep ==
    /\ pc = "interact"
    /\ before' = particles
    /\ particles' = HandleMouseInteraction(particles, mouse, mouse_down)
    /\ snapped' = IF mouse_down
                  THEN { i \in DOMAIN particles : Grabbed(particles[i], mouse) }
                  ELSE {}
    /\ snap_pt' = mouse
    /\ j' = 0
    /\ pc' = "relax"
    /\ UNCHANGED << grid, constraints, current_material, mouse, mouse_down, dt,
                    frames, frame_start, keys, last_key, used, div_by_zero >>

\* One iteration of main's loop over j: every constraint once.
RelaxStep ==
    /\ pc = "relax"
    /\ j < RELAX_ITERATIONS
    /\ before' = particles
    /\ particles' = RelaxPass(particles, constraints, current_material)
    /\ used' = used \cup { PolicyOf(current_material.solve_constraint) }
                    \cup Referenced(particles, current_material)
    /\ div_by_zero' = (div_by_zero
                       \/ 0 \in RelaxDivisors(particles, constraints, 1, current_material))
    /\ j' = j + 1
    /\ UNCHANGED << grid, constraints, current_material, mouse, mouse_down, dt,
                    pc, frames, frame_start, snapped, snap_pt, keys, last_key >>

\* render_cloth, SDL_Delay(16) and the return to the poll loop.
RenderStep ==
    /\ pc = "relax"
    /\ j = RELAX_ITERATIONS
    /\ pc' = "poll"
    /\ frames' = frames + 1
    /\ frame_start' = particles
    /\ UNCHANGED << grid, particles, constraints, current_material, mouse,
                    mouse_down, dt, j, before, snapped, snap_pt, keys, last_key,
                    used, div_by_zero >>

Next ==
    \/ \E k \in MaterialKeys : KeyDown(k)
    \/ \E pt \in MousePoints(grid) : MouseButtonDown(pt)
    \/ MouseButtonUp
    \/ \E pt \in MousePoints(grid) : MouseMotion(pt)
    \/ \E t \in DtTicks : ForceStep(t)
    \/ InteractStep
    \/ RelaxStep
    \/ RenderStep

Spec == Init /\ [][Next]_vars

(***************************************************************************)
(* A single constraint relaxed on its own: two particles, one constraint,  *)
(* the active material's solve_constraint applied pass after pass.         *)
(***************************************************************************)
PairRests == { 10, 15 }

\* Separations p2 - p1 tried for rest length r: at rest (along an axis and on a
\* 3-4-5 diagonal), stretched to twice the rest length, compressed, coincident.
PairOffsets(r) ==
    { [dx |-> r, dy |-> 0], [dx |-> 0, dy |-> -r],
      [dx |-> (3 * r) \div 5, dy |-> (4 * r) \div 5],
      [dx |-> 2 * r, dy |-> 0], [dx |-> 0, dy |-> 2 * r],
      [dx |-> -((6 * r) \div 5), dy |-> (8 * r) \div 5],
      [dx |-> r \div 5, dy |-> 0], [dx |-> 0, dy |-> 0] }

PairParticles(g, off, l1, l2, cur) ==
    LET a == InitParticle(g, 0, cur)
    IN  [ i \in 0 .. 1 |->
            IF i = 0 THEN [ a EXCEPT !.locked = l1 ]
            ELSE [ a EXCEPT !.x = a.x + off.dx * FX, !.y = a.y + off.dy * FX,
                            !.old_x = a.x + off.dx * FX, !.old_y = a.y + off.dy * FX,
                            !.locked = l2 ] ]

InitPair ==
    /\ \E r \in PairRests : grid = [w |-> 2, h |-> 1, spacing |-> r]
    /\ current_material \in Materials
    /\ \E off \in PairOffsets(grid.spacing), l1 \in BOOLEAN, l2 \in BOOLEAN :
         /\ particles = PairParticles(grid, off, l1, l2, current_material)
         /\ frame_start = PairParticles(grid, off, l1, l2, current_material)
         /\ before = PairParticles(grid, off, l1, l2, current_material)
    /\ constraints = InitConstraints(grid, current_material)
    /\ mouse = [x |-> 0, y |-> 0]
    /\ mouse_down = FALSE
    /\ dt = 0
    /\ pc = "pair"
    /\ j = 0
    /\ frames = 0
    /\ snapped = {}
    /\ snap_pt = [x |-> 0, y |-> 0]
    /\ keys = 0
    /\ last_key = "none"
    /\ used = {}
    /\ div_by_zero = FALSE

\* One relaxation pass over the single constraint.
RelaxPair ==
    /\ pc = "pair"
    /\ j < MaxPasses
    /\ before' = particles
    /\ particles' = RelaxPass(particles, constraints, current_material)
    /\ used' = used \cup { PolicyOf(current_material.solve_constraint) }
                    \cup Referenced(particles, current_material)
    /\ div_by_zero' = (div_by_zero
                       \/ 0 \in RelaxDivisors(particles, constraints, 1, current_material))
    /\ j' = j + 1
    /\ UNCHANGED << grid, constraints, current_material, mouse, mouse_down, dt,
                    pc, frames, frame_start, snapped, snap_pt, keys, last_key >>

NextPair == RelaxPair

PairSpec == InitPair /\ [][NextPair]_vars

(***************************************************************************)
(* Properties.                                                             *)
(***************************************************************************)
SamePos(p, q) == p.x = q.x /\ p.y = q.y /\ p.old_x = q.old_x /\ p.old_y = q.old_y

SameXY(p, q) == p.x = q.x /\ p.y = q.y

Motion(p) == << p.x, p.y, p.old_x, p.old_y, p.vx, p.vy >>

\* C1: every locked particle (the whole top row) keeps the x, y, old_x and
\* old_y that init_particles gave it, whatever time deltas, pointer states and
\* material selections the frames have seen.
C1_LockedNeverMove ==
    pc # "pair" =>
        \A i \in DOMAIN particles :
            /\ (i < grid.w => particles[i].locked)
            /\ (particles[i].locked =>
                  SamePos(particles[i], InitParticles(grid, COTTON)[i]))

\* A frame has ended in which the pointer was pressed within reach of a locked
\* particle, denim was dispatched to, and unlocked particles were snapped.
C1_Witness ==
    /\ pc = "poll"
    /\ frames >= 1
    /\ "DENIM" \in used
    /\ snapped # {}
    /\ \E i \in DOMAIN particles : particles[i].locked /\ InReach(particles[i], snap_pt)
    /\ \E i \in DOMAIN particles :
         ~particles[i].locked /\ ~SamePos(particles[i], InitParticles(grid, COTTON)[i])

\* The interaction pass has just run with the pointer pressed exactly at the
\* position of a locked particle.
PressedOnLocked ==
    /\ pc = "relax"
    /\ j = 0
    /\ mouse_down
    /\ \E i \in DOMAIN before :
         /\ before[i].locked
         /\ before[i].x = snap_pt.x * FX
         /\ before[i].y = snap_pt.y * FX

\* C2 as stated: with the pointer pressed exactly on a locked particle, the
\* interaction pass leaves every particle of the grid where it was.
C2_NoParticleMoves ==
    PressedOnLocked =>
        \A i \in DOMAIN particles : SamePos(particles[i], before[i])

\* C2 as amended: with the pointer pressed exactly on a locked particle, the
\* interaction pass moves no locked particle and no particle 20 or more away
\* from the pointer; every unlocked particle closer than 20 is snapped onto
\* the pointer.
C2_OnlyUnlockedInReachMove ==
    PressedOnLocked =>
        \A i \in DOMAIN particles :
            /\ (before[i].locked \/ ~InReach(before[i], snap_pt)) =>
                  SamePos(particles[i], before[i])
            /\ (~before[i].locked /\ InReach(before[i], snap_pt)) =>
                  /\ particles[i].x = snap_pt.x * FX
                  /\ particles[i].y = snap_pt.y * FX
                  /\ particles[i].old_x = snap_pt.x * FX
                  /\ particles[i].old_y = snap_pt.y * FX

\* The pointer is pressed on a locked particle, another locked particle is in
\* reach, and an unlocked neighbour has been snapped.
C2_Witness ==
    /\ PressedOnLocked
    /\ snapped # {}
    /\ \E i \in DOMAIN particles :
         /\ particles[i].locked
         /\ InReach(particles[i], snap_pt)
         /\ particles[i].x # snap_pt.x * FX

\* The frame without the pointer: force pass, then the 5 relaxation passes.
RECURSIVE RelaxTimes(_, _, _, _)
\* n relaxation passes.  TLC evaluates operator arguments on demand; comparing
\* a pass's result with itself evaluates it before the next pass starts.
RelaxTimes(ps, cs, n, cur) ==
    IF n = 0 THEN ps
    ELSE LET r == RelaxPass(ps, cs, cur)
         IN  IF r = r THEN RelaxTimes(r, cs, n - 1, cur) ELSE ps

PhysicsOf(ps, cs, t, cur) ==
    LET forced == ForcePass(ps, DtOf(t), cur)
        relaxed == RelaxTimes(forced, cs, RELAX_ITERATIONS, cur)
    IN  IF forced = forced
        THEN << [ i \in DOMAIN ps |-> Motion(forced[i]) ],
                [ i \in DOMAIN ps |-> Motion(relaxed[i]) ] >>
        ELSE << >>

\* C3: once cotton, denim, silk and cotton have been selected in this order
\* with no step in between, the next force pass and relaxation passes give the
\* positions, previous positions and velocities that cotton gives on the
\* particles as they were before the selections.
C3_RoundTripIsCotton ==
    keys = Len(RoundTrip) =>
        \A t \in DtTicks :
            PhysicsOf(particles, constraints, t, current_material)
              = PhysicsOf(frame_start, InitConstraints(grid, COTTON), t, COTTON)

\* The round trip is complete on a cloth that silk has already moved.
C3_Witness ==
    /\ keys = Len(RoundTrip)
    /\ frames >= 1
    /\ "SILK" \in used
    /\ \E i \in DOMAIN particles :
         IsFinite(particles[i].vy) /\ particles[i].vy # 0

\* C6: no operation of a frame step has divided by zero.
C6_NoDivisionByZero == ~div_by_zero

\* C7 as stated: when the next force pass begins, every particle the last
\* interaction pass snapped still has x = old_x and y = old_y.
C7_SnappedHaveZeroVelocity ==
    (pc = "poll" /\ frames >= 1) =>
        \A i \in snapped :
            particles[i].x = particles[i].old_x /\ particles[i].y = particles[i].old_y

\* C7 as amended: a snapped particle has x = old_x and y = old_y right after
\* the interaction pass; from then until the next force pass begins its old_x
\* and old_y stay at the pointer position, while the relaxation passes of the
\* same step are free to move x and y.
C7_SnappedKeepOldAtPointer ==
    /\ (pc = "relax" /\ j = 0) =>
          \A i \in snapped :
              particles[i].x = particles[i].old_x /\ particles[i].y = particles[i].old_y
    /\ pc \in { "relax", "poll" } =>
          \A i \in snapped :
              /\ particles[i].old_x = snap_pt.x * FX
              /\ particles[i].old_y = snap_pt.y * FX

\* The next force pass is about to begin and a snapped particle has been moved
\* off the pointer by the relaxation.
C7_Witness ==
    /\ pc = "poll"
    /\ frames >= 1
    /\ \E i \in snapped :
         particles[i].x # particles[i].old_x \/ particles[i].y # particles[i].old_y

\* The first step of the 2 x 2 grid at spacing 10: cotton, dt = 1/60 s, the
\* pointer not pressed.
FirstCottonStep ==
    /\ grid = [w |-> 2, h |-> 2, spacing |-> 10]
    /\ frames = 0
    /\ pc \in { "interact", "relax" }
    /\ current_material = COTTON
    /\ dt = 17
    /\ ~mouse_down

\* v is within 5 % of target.
Consistent(v, target) == Abs(v - target) * 20 <= target

\* After the whole step the bottom particles are still below their initial
\* height and the top particles are where they were.
StillBelowAfterStep ==
    (FirstCottonStep /\ pc = "relax" /\ j = RELAX_ITERATIONS) =>
        \A i \in DOMAIN particles :
            IF i < grid.w
            THEN SamePos(particles[i], frame_start[i])
            ELSE particles[i].y > frame_start[i].y

\* C8 as stated: the force pass of that step moves each bottom particle down
\* by an amount consistent with g * dt^2 / 2, and after the whole step each is
\* still below its initial height while the top particles are unchanged.
C8_FallsHalfGDtSquared ==
    /\ (FirstCottonStep /\ pc = "interact") =>
          \A i \in DOMAIN particles :
              i >= grid.w =>
                  Consistent(particles[i].y - before[i].y, RDiv(GRAVITY, 2 * 60 * 60))
    /\ StillBelowAfterStep

\* C8 as amended: the force pass moves each bottom particle down by an amount
\* consistent with g * dt^2 (twice the stated one) and leaves its x alone; the
\* rest as stated.
C8_FallsGDtSquared ==
    /\ (FirstCottonStep /\ pc = "interact") =>
          \A i \in DOMAIN particles :
              i >= grid.w =>
                  /\ Consistent(particles[i].y - before[i].y, RDiv(GRAVITY, 60 * 60))
                  /\ particles[i].x = before[i].x
    /\ StillBelowAfterStep

\* The step of the scenario has run to its end.
C8_Witness == FirstCottonStep /\ pc = "relax" /\ j = RELAX_ITERATIONS

\* C9: while a step runs, every policy it has dispatched to or read a
\* coefficient of is the most recently selected one; and when a step is about
\* to start, the active material's two functions and every particle's stored
\* material reference denote that policy.
C9_OnePolicyPerStep ==
    /\ pc \in { "interact", "relax" } => used = { PolicyOfKey(last_key) }
    /\ pc = "poll" =>
          /\ PolicyOf(current_material.apply_force) = PolicyOfKey(last_key)
          /\ PolicyOf(current_material.solve_constraint) = PolicyOfKey(last_key)
          /\ \A i \in DOMAIN particles :
                Deref(particles[i].material, current_material)
                  = KeyMaterial(IF last_key = "none" THEN "SDLK_1" ELSE last_key)

\* A second step has run to its end under denim, selected after the first.
C9_Witness ==
    /\ pc = "relax"
    /\ j = RELAX_ITERATIONS
    /\ frames = 1
    /\ last_key = "SDLK_3"
    /\ used = { "DENIM" }
    /\ \E i \in DOMAIN particles : particles[i].vy # frame_start[i].vy

AdjacentH(g, a, b) == b = a + 1 /\ a \div g.w = b \div g.w

AdjacentV(g, a, b) == b = a + g.w

\* C10: the constraint set holds (w-1)*h + w*(h-1) constraints, each joining a
\* horizontally or vertically adjacent pair at rest length spacing, exactly one
\* per adjacent pair, and it is in every state the set init_constraints built.
C10_ConstraintsAreGridLinks ==
    pc # "pair" =>
        /\ Len(constraints) = (grid.w - 1) * grid.h + grid.w * (grid.h - 1)
        /\ \A k \in 1 .. Len(constraints) :
              /\ constraints[k].p1 \in Idx(grid)
              /\ constraints[k].p2 \in Idx(grid)
              /\ \/ AdjacentH(grid, constraints[k].p1, constraints[k].p2)
                 \/ AdjacentV(grid, constraints[k].p1, constraints[k].p2)
              /\ constraints[k].rest_length = grid.spacing * FX
        /\ \A a \in Idx(grid), b \in Idx(grid) :
              (AdjacentH(grid, a, b) \/ AdjacentV(grid, a, b)) =>
                  Cardinality({ k \in 1 .. Len(constraints) :
                                  constraints[k].p1 = a /\ constraints[k].p2 = b }) = 1
        /\ constraints = InitConstraints(grid, COTTON)

\* Frames with a material switch and a snap have run on the 3 x 2 grid.
C10_Witness ==
    /\ pc = "poll"
    /\ frames >= 1
    /\ grid.w = 3
    /\ last_key # "none"
    /\ snapped # {}
    /\ Len(constraints) = 7

(***************************************************************************)
(* Properties of the single constraint.                                    *)
(***************************************************************************)
Dist(ps) == SqrtSumSq(SubF(ps[1].x, ps[0].x), SubF(ps[1].y, ps[0].y))

Rest == constraints[1].rest_length

BothLocked == particles[0].locked /\ particles[1].locked

OneLocked == particles[0].locked # particles[1].locked

\* C4 as stated: a constraint whose endpoints start at its rest length keeps
\* both endpoints where they were through any number of passes, for each of
\* the three materials and any lock flags.
C4_RestIsFixedPoint ==
    (pc = "pair" /\ Dist(frame_start) = Rest) =>
        \A i \in DOMAIN particles : SameXY(particles[i], frame_start[i])

\* C4 as amended: that holds for cotton and silk with any lock flags, and for
\* denim when both endpoints are locked; under denim with an unlocked endpoint
\* the first pass already shortens the pair below the rest length.
C4_RestIsFixedPointButDenim ==
    (pc = "pair" /\ Dist(frame_start) = Rest) =>
        /\ (current_material \in { COTTON, SILK } \/ BothLocked) =>
              \A i \in DOMAIN particles : SameXY(particles[i], frame_start[i])
        /\ (current_material = DENIM /\ ~BothLocked /\ j >= 1) =>
              Dist(particles) < Rest

\* Silk has relaxed a diagonal pair of unlocked particles at rest length
\* through every pass.
C4_Witness ==
    /\ pc = "pair"
    /\ j = MaxPasses
    /\ Dist(frame_start) = Rest
    /\ current_material = SILK
    /\ ~particles[0].locked
    /\ ~particles[1].locked
    /\ frame_start[1].x # frame_start[0].x
    /\ frame_start[1].y # frame_start[0].y

SameSide(a0, a) == (a0 > 0 => a > 0) /\ (a0 < 0 => a < 0) /\ (a0 = 0 => a = 0)

\* C5: a pair stretched to twice the rest length with exactly one endpoint
\* locked: after each of the 5 passes the distance is smaller than before the
\* pass and closer to the rest length, the locked endpoint is where it was,
\* and the separation vector keeps its direction.
C5_StretchedPairConverges ==
    (pc = "pair" /\ Dist(frame_start) = 2 * Rest /\ OneLocked
       /\ j >= 1 /\ j <= RELAX_ITERATIONS) =>
        /\ Dist(particles) < Dist(before)
        /\ Abs(Dist(particles) - Rest) < Abs(Dist(before) - Rest)
        /\ \A i \in DOMAIN particles :
              particles[i].locked => SamePos(particles[i], frame_start[i])
        /\ SameSide(frame_start[1].x - frame_start[0].x,
                    particles[1].x - particles[0].x)
        /\ SameSide(frame_start[1].y - frame_start[0].y,
                    particles[1].y - particles[0].y)

\* Denim has relaxed a diagonal pair, stretched to twice the rest length with
\* its first endpoint locked, 5 times.
C5_Witness ==
    /\ pc = "pair"
    /\ j = RELAX_ITERATIONS
    /\ Dist(frame_start) = 2 * Rest
    /\ particles[0].locked
    /\ ~particles[1].locked
    /\ current_material = DENIM
    /\ frame_start[1].x # frame_start[0].x
    /\ frame_start[1].y # frame_start[0].y

====
